---- MODULE Spec2Model ----
(***************************************************************************)
(* python-config: discovery and introspection of Python interpreters.      *)
(*                                                                         *)
(* A string is a sequence of one-character strings, so that splitting on   *)
(* the first space, splitting into lines, UTF-8 validation and integer     *)
(* parsing are computed character by character, as the library does.       *)
(***************************************************************************)
EXTENDS Integers, Sequences, FiniteSets, TLC

VARIABLES
    pc,        \* where the calling thread is: "idle", "launch", "wait", "consumer", "done"
    op,        \* the public function being executed
    pred,      \* the predicate handed to find_interpreter_matching
    idx,       \* position of the candidate iterator inside find_interpreters
    path,      \* the interpreter handed to get_config_from_interpreter
    children,  \* child processes that are alive
    launches,  \* interpreters Command::output was invoked on during this call
    spawned,   \* interpreters a child process was started for during this call
    probe,     \* the last Command::output result and what get_config_from_interpreter made of it
    probes,    \* results of get_config_from_interpreter during this call, in order
    yielded,   \* configurations the find_interpreters iterator has yielded
    exhausted, \* whether the iterator has returned None
    ret        \* value returned by the call: <<v>>, or <<>> for None / nothing yet

vars == <<pc, op, pred, idx, path, children, launches, spawned, probe, probes, yielded,
          exhausted, ret>>

----------------------------------------------------------------------------
(* Characters and string helpers *)

SP == " "
LF == "\n"
CR == "\r"
BadByte == "<FF>"   \* stands for a byte that is not valid UTF-8

DigitChars == <<"0", "1", "2", "3", "4", "5", "6", "7", "8", "9">>

IsDigit(c) == \E i \in DOMAIN DigitChars : DigitChars[i] = c

DigitVal(c) == (CHOOSE i \in DOMAIN DigitChars : DigitChars[i] = c) - 1

RECURSIVE IndexOf(_, _, _)
IndexOf(s, c, i) ==
    IF i > Len(s) THEN 0
    ELSE IF s[i] = c THEN i
    ELSE IndexOf(s, c, i + 1)

RECURSIVE Flatten(_)
Flatten(ss) == IF ss = <<>> THEN <<>> ELSE Head(ss) \o Flatten(Tail(ss))

Last(s) == s[Len(s)]

----------------------------------------------------------------------------
(* The keys and tokens of the introspection protocol *)

version_major    == <<"v","e","r","s","i","o","n","_","m","a","j","o","r">>
version_minor    == <<"v","e","r","s","i","o","n","_","m","i","n","o","r">>
implementation   == <<"i","m","p","l","e","m","e","n","t","a","t","i","o","n">>
libdir           == <<"l","i","b","d","i","r">>
ld_version       == <<"l","d","_","v","e","r","s","i","o","n">>
base_prefix      == <<"b","a","s","e","_","p","r","e","f","i","x">>
shared           == <<"s","h","a","r","e","d">>
executable       == <<"e","x","e","c","u","t","a","b","l","e">>
calcsize_pointer == <<"c","a","l","c","s","i","z","e","_","p","o","i","n","t","e","r">>

TrueToken    == <<"T","r","u","e">>
FalseToken   == <<"F","a","l","s","e">>
CPythonToken == <<"C","P","y","t","h","o","n">>
PyPyToken    == <<"P","y","P","y">>

U8Max == 255

\* A u32 is held as two 16-bit limbs, [hi, lo] for hi * 2^16 + lo.
Limb == 2^16

U32(n) == [hi |-> n \div Limb, lo |-> n % Limb]

----------------------------------------------------------------------------
(* Results and errors *)

Ok(v)  == [ok |-> TRUE, val |-> v]
Err(e) == [ok |-> FALSE, err |-> e]

\* The fixed texts of the error messages.
MissingFmt      == "Failed to get {} from the python interpreter. Output was:\n\n{}"
InvalidFmt      == "Invalid interpreter: {}"
NotFoundFmt     == "Could not find any interpreter at {}, are you sure you have Python installed on your PATH?"
LaunchFailedFmt == "Failed to run the Python interpreter at {}: {}"
ScriptFailedFmt == "Python script failed: {}"

\* A boxed error: the type behind the Box, the message's fixed text, and the
\* strings interpolated into the message.
Error(type, fmt, args) == [type |-> type, fmt |-> fmt, args |-> args]

----------------------------------------------------------------------------
(* Standard-library conversions the parser relies on *)

\* String::from_utf8: the bytes as a string, or an error when a byte is invalid.
from_utf8(bytes) ==
    IF \E i \in DOMAIN bytes : bytes[i] = BadByte
    THEN Err(Error("FromUtf8Error", "invalid utf-8 sequence", <<>>))
    ELSE Ok(bytes)

\* str::lines: split at "\n", a "\r" directly before the "\n" belongs to the
\* line ending; the final line needs no line ending.
RECURSIVE lines(_)
lines(s) ==
    IF s = <<>> THEN <<>>
    ELSE LET n == IndexOf(s, LF, 1) IN
         IF n = 0 THEN <<s>>
         ELSE LET l == SubSeq(s, 1, n - 1)
                  stripped == IF l # <<>> /\ Last(l) = CR
                              THEN SubSeq(l, 1, Len(l) - 1) ELSE l
              IN <<stripped>> \o lines(SubSeq(s, n + 1, Len(s)))

\* u8 from_str: optional "+", then decimal digits accumulated left to right
\* with an overflow check against the type's maximum.
RECURSIVE ParseDigits(_, _, _, _)
ParseDigits(s, i, acc, max) ==
    IF i > Len(s) THEN Ok(acc)
    ELSE IF ~IsDigit(s[i])
         THEN Err(Error("ParseIntError", "invalid digit found in string", <<>>))
    ELSE IF acc * 10 + DigitVal(s[i]) > max
         THEN Err(Error("ParseIntError", "number too large to fit in target type", <<>>))
    ELSE ParseDigits(s, i + 1, acc * 10 + DigitVal(s[i]), max)

ParseUnsigned(s, max) ==
    IF s = <<>>
    THEN Err(Error("ParseIntError", "cannot parse integer from empty string", <<>>))
    ELSE LET digits == IF s[1] = "+" THEN Tail(s) ELSE s IN
         IF digits = <<>>
         THEN Err(Error("ParseIntError", "invalid digit found in string", <<>>))
         ELSE ParseDigits(digits, 1, 0, max)

parse_u8(s) == ParseUnsigned(s, U8Max)

\* u32 from_str: the same, the accumulator kept in limbs.
RECURSIVE ParseDigits32(_, _, _)
ParseDigits32(s, i, acc) ==
    IF i > Len(s) THEN Ok(acc)
    ELSE IF ~IsDigit(s[i])
         THEN Err(Error("ParseIntError", "invalid digit found in string", <<>>))
    ELSE LET lo == acc.lo * 10 + DigitVal(s[i])
             hi == acc.hi * 10 + lo \div Limb
         IN IF hi >= Limb
            THEN Err(Error("ParseIntError", "number too large to fit in target type", <<>>))
            ELSE ParseDigits32(s, i + 1, [hi |-> hi, lo |-> lo % Limb])

parse_u32(s) ==
    IF s = <<>>
    THEN Err(Error("ParseIntError", "cannot parse integer from empty string", <<>>))
    ELSE LET digits == IF s[1] = "+" THEN Tail(s) ELSE s IN
         IF digits = <<>>
         THEN Err(Error("ParseIntError", "invalid digit found in string", <<>>))
         ELSE ParseDigits32(digits, 1, U32(0))

----------------------------------------------------------------------------
(* PythonImplementation::from_str *)

\* A faulty variant: an unknown name is taken for CPython.
PythonImplementation_from_str_lenient(s) ==
    IF s = PyPyToken THEN Ok("PyPy") ELSE Ok("CPython")

PythonImplementation_from_str(s) ==
    IF s = CPythonToken THEN Ok("CPython")
    ELSE IF s = PyPyToken THEN Ok("PyPy")
    ELSE Err(Error("String", InvalidFmt, <<s>>))

----------------------------------------------------------------------------
(* get_config_from_interpreter: the output parser *)

\* A faulty variant: split at every space, the second piece taken as the value.
split_all(line) ==
    LET n == IndexOf(line, SP, 1) IN
    IF n = 0 THEN <<line>>
    ELSE LET rest == SubSeq(line, n + 1, Len(line))
             m == IndexOf(rest, SP, 1)
         IN <<SubSeq(line, 1, n - 1), IF m = 0 THEN rest ELSE SubSeq(rest, 1, m - 1)>>

\* line.splitn(2, ' '): at most two pieces, cut at the first space.
splitn2(line) ==
    LET n == IndexOf(line, SP, 1) IN
    IF n = 0 THEN <<line>>
    ELSE <<SubSeq(line, 1, n - 1), SubSeq(line, n + 1, Len(line))>>

\* The filter_map closure: a (key, value) pair, or nothing for a line
\* without a space.
KeyValues(output) ==
    LET ls == lines(output)
        pieces == [i \in DOMAIN ls |-> splitn2(ls[i])]
    IN SelectSeq(pieces, LAMBDA p : Len(p) = 2)

\* collect() into a HashMap: a later pair replaces an earlier one with the same key.
CollectMap(pairs) ==
    [k \in {pairs[i][1] : i \in DOMAIN pairs} |->
        LET last == CHOOSE i \in DOMAIN pairs :
                        /\ pairs[i][1] = k
                        /\ \A j \in DOMAIN pairs : pairs[j][1] = k => j <= i
        IN pairs[last][2]]

ParseMap(output) == CollectMap(KeyValues(output))

\* A faulty variant: the message names no key.
get_unnamed(map, output, key) ==
    IF key \in DOMAIN map THEN Ok(map[key])
    ELSE Err(Error("String", MissingFmt, <<output>>))

\* The get! macro.
get(map, output, key) ==
    IF key \in DOMAIN map THEN Ok(map[key])
    ELSE Err(Error("String", MissingFmt, <<key, output>>))

\* get!(key)?.parse()? for the u8, PythonImplementation and u32 fields.
get_u8(map, output, key) ==
    LET g == get(map, output, key) IN
    IF g.ok THEN parse_u8(g.val) ELSE g

get_implementation(map, output, key) ==
    LET g == get(map, output, key) IN
    IF g.ok THEN PythonImplementation_from_str(g.val) ELSE g

get_u32(map, output, key) ==
    LET g == get(map, output, key) IN
    IF g.ok THEN parse_u32(g.val) ELSE g

\* A faulty variant: starts_with in place of equality.
shared_of_prefix(map, output) ==
    LET g == get(map, output, shared) IN
    IF g.ok
    THEN Ok(Len(g.val) >= Len(TrueToken) /\ SubSeq(g.val, 1, Len(TrueToken)) = TrueToken)
    ELSE g

\* get!("shared")? == "True"
shared_of(map, output) ==
    LET g == get(map, output, shared) IN
    IF g.ok THEN Ok(g.val = TrueToken) ELSE g

\* map.get("libdir").cloned(): None is <<>>, Some(v) is <<v>>.
libdir_of(map) == IF libdir \in DOMAIN map THEN <<map[libdir]>> ELSE <<>>

\* The fallible field expressions of the record literal, in the order the
\* literal evaluates them.
FieldResults(map, output) ==
    << get_u8(map, output, version_major),
       get_u8(map, output, version_minor),
       get_implementation(map, output, implementation),
       shared_of(map, output),
       get(map, output, ld_version),
       get(map, output, base_prefix),
       get(map, output, executable),
       get_u32(map, output, calcsize_pointer) >>

\* The record literal: the first failing field expression returns its error
\* from the function; otherwise the record is built.
BuildConfig(map, output) ==
    LET f == FieldResults(map, output) IN
    IF \E i \in DOMAIN f : ~f[i].ok
    THEN f[CHOOSE i \in DOMAIN f : ~f[i].ok /\ \A j \in 1..(i - 1) : f[j].ok]
    ELSE Ok([version |-> [major |-> f[1].val,
                          minor |-> f[2].val,
                          implementation |-> f[3].val],
             libdir |-> libdir_of(map),
             shared |-> f[4].val,
             ld_version |-> f[5].val,
             base_prefix |-> f[6].val,
             executable |-> f[7].val,
             calcsize_pointer |-> f[8].val])

parse_output(output) == BuildConfig(ParseMap(output), output)

----------------------------------------------------------------------------
(* run_python_script and get_config_from_interpreter *)

python  == <<"p","y","t","h","o","n">>
python3 == <<"p","y","t","h","o","n","3">>
stub    == <<"/","s","t","u","b">>

\* The script text, which is the same in every call.
ScriptText == <<"<script>">>

\* What Command::output() returned: an io::Error of some kind, or the exit
\* status and captured standard output of the child.
OutputErr(kind)          == [ok |-> FALSE, kind |-> kind, status |-> 0, stdout |-> <<>>]
OutputOk(status, stdout) == [ok |-> TRUE, kind |-> "", status |-> status, stdout |-> stdout]

\* ExitStatus::success
success(status) == status = 0

\* A faulty variant: the exit status is not looked at.
run_python_script_any_status(interpreter, out) ==
    IF ~out.ok THEN
        IF out.kind = "NotFound"
        THEN Err(Error("String", NotFoundFmt, <<interpreter>>))
        ELSE Err(Error("String", LaunchFailedFmt, <<interpreter, <<out.kind>> >>))
    ELSE from_utf8(out.stdout)

run_python_script(interpreter, out) ==
    IF ~out.ok THEN
        IF out.kind = "NotFound"
        THEN Err(Error("String", NotFoundFmt, <<interpreter>>))
        ELSE Err(Error("String", LaunchFailedFmt, <<interpreter, <<out.kind>> >>))
    ELSE IF ~success(out.status)
         THEN Err(Error("String", ScriptFailedFmt, <<ScriptText>>))
    ELSE from_utf8(out.stdout)

get_config_from_interpreter(interpreter, out) ==
    LET output == run_python_script(interpreter, out) IN
    IF output.ok THEN parse_output(output.val) ELSE output

----------------------------------------------------------------------------
(* find_interpreters and find_interpreter_matching *)

\* A faulty variant: the two names in the other order.
CandidatesSwapped == <<python3, python>>

Candidates == <<python, python3>>

\* The filter_map closure of find_interpreters: Result::ok, <<c>> for Some(c).
ok_closure(result) == IF result.ok THEN <<result.val>> ELSE <<>>

\* The predicates callers hand to find_interpreter_matching.
Predicates == {"any", "none", "py3", "shared"}

Pred(f, c) ==
    CASE f = "any"    -> TRUE
      [] f = "none"   -> FALSE
      [] f = "py3"    -> c.version.major = 3
      [] f = "shared" -> c.shared

\* A faulty variant: filter(f).last() in place of find(f).
find_step_last(f, item) ==
    [stop |-> FALSE, ret |-> IF Pred(f, item) THEN <<item>> ELSE <<>>]

\* A faulty variant: the predicate is negated.
find_step_negated(f, item) ==
    IF ~Pred(f, item) THEN [stop |-> TRUE, ret |-> <<item>>]
    ELSE [stop |-> FALSE, ret |-> <<>>]

\* One step of Iterator::find on a yielded item: whether it returns, and with what.
find_step(f, item) ==
    IF Pred(f, item) THEN [stop |-> TRUE, ret |-> <<item>>]
    ELSE [stop |-> FALSE, ret |-> <<>>]

----------------------------------------------------------------------------
(* The child process: what an executable may write to standard output *)

\* Python's str() of a non-negative int.
RECURSIVE IntStr(_)
IntStr(n) == IF n < 10 THEN <<DigitChars[n + 1]>>
             ELSE IntStr(n \div 10) \o <<DigitChars[(n % 10) + 1]>>

BoolStr(b) == IF b THEN TrueToken ELSE FalseToken

\* The print statements of the introspection script, as (key, value) lines,
\* for an interpreter with the given facts.
ScriptEntries(f) ==
    << <<version_major, IntStr(f.major)>>,
       <<version_minor, IntStr(f.minor)>>,
       <<implementation, f.implementation>> >>
    \o (IF f.libdir = <<>> THEN <<>> ELSE << <<libdir, f.libdir[1]>> >>)
    \o << <<ld_version, f.ld_version>>,
          <<base_prefix, f.base_prefix>>,
          <<shared, BoolStr(f.shared)>>,
          <<executable, f.executable>>,
          <<calcsize_pointer, IntStr(f.pointer)>> >>

\* The text of a sequence of lines: <<k, v>> is "k v", <<k>> is a line without
\* a space, <<>> is a line that is not printed.
EntryText(e, eol) ==
    IF e = <<>> THEN <<>>
    ELSE IF Len(e) = 1 THEN e[1] \o eol
    ELSE e[1] \o <<SP>> \o e[2] \o eol

Text(entries, eol) == Flatten([i \in DOMAIN entries |-> EntryText(entries[i], eol)])

BaseFacts ==
    [major |-> 3, minor |-> 11, implementation |-> CPythonToken,
     libdir |-> << <<"/","l">> >>, ld_version |-> <<"3",".","1","1">>, base_prefix |-> <<"/","u">>,
     shared |-> TRUE, executable |-> <<"/","p">>, pointer |-> 8]

BaseEntries == ScriptEntries(BaseFacts)

\* Other values a line may carry, per line of the script's output.
AltValues ==
    << {<<"2">>, <<"+","3">>, <<"x">>, <<"2","5","6">>, <<>>},
       {<<"0">>, <<"2","5","5">>, <<"2","5","6">>, <<"1","x">>},
       {PyPyToken, <<"c","p","y","t","h","o","n">>, <<" ","C","P","y","t","h","o","n">>, <<"C","P","y","t","h","o","n"," ">>, <<"J","y","t","h","o","n">>},
       {<<"/","a"," ","b">>, <<>>},
       {<<"3",".","1","1","m">>, <<"3"," ","m">>},
       {<<"/","o"," ","t">>, <<BadByte>>},
       {FalseToken, <<>>, <<"0">>, <<"y","e","s">>, <<"t","r","u","e">>, <<"T","r","u","e"," ">>},
       {<<"/","m","y"," ","p","y">>},
       {<<"4">>, <<"4","2","9","4","9","6","7","2","9","5">>,
        <<"4","2","9","4","9","6","7","2","9","6">>, <<"x">>} >>

\* What may replace line i: another value, the key without a value, or no line.
Alts(i) ==
    {<<BaseEntries[i][1], v>> : v \in AltValues[i]} \cup {<<BaseEntries[i][1]>>, <<>>}

MaxChanged == 2

\* The outputs that differ from the script's in at most b lines, from line i on.
RECURSIVE Vary(_, _)
Vary(i, b) ==
    IF i > Len(BaseEntries) THEN {<<>>}
    ELSE {<<BaseEntries[i]>> \o r : r \in Vary(i + 1, b)}
         \cup (IF b = 0 THEN {}
               ELSE {<<a>> \o r : a \in Alts(i), r \in Vary(i + 1, b - 1)})

Reverse(q) == [i \in DOMAIN q |-> q[Len(q) + 1 - i]]

DropLast(q) == SubSeq(q, 1, Len(q) - 1)

Noise == << << <<>> >>, << <<"j","u","n","k">> >>, << <<"x">>, <<"y"," ","z">> >> >>

Layouts == {"script", "reversed", "crlf", "noise"}

\* The lines written, and the bytes of them, under a layout.
LaidOut(entries, layout) ==
    CASE layout = "reversed" -> Reverse(entries)
      [] layout = "noise"    -> <<Noise[1], Noise[2]>> \o entries \o <<Noise[3]>>
      [] OTHER               -> entries

Bytes(entries, layout) ==
    CASE layout = "crlf"  -> Text(LaidOut(entries, layout), <<CR, LF>>)
      [] layout = "noise" -> DropLast(Text(LaidOut(entries, layout), <<LF>>))
      [] OTHER            -> Text(LaidOut(entries, layout), <<LF>>)

\* What a child probed by a direct call may write: the script's output with
\* at most MaxChanged departures from it, a layout other than the script's
\* counting as one; and (a smaller choice) what the children of a discovery
\* pass may write.
Writes ==
    {[entries |-> LaidOut(e, l), stdout |-> Bytes(e, l)] :
        e \in Vary(1, MaxChanged - 1), l \in Layouts}
    \cup {[entries |-> e, stdout |-> Bytes(e, "script")] : e \in Vary(1, MaxChanged)}

Replace(i, a) == [BaseEntries EXCEPT ![i] = a]

DiscoveryWrites ==
    {[entries |-> e, stdout |-> Text(e, <<LF>>)] :
        e \in {BaseEntries,
               Replace(1, <<version_major, <<"2">>>>),
               Replace(3, <<implementation, PyPyToken>>),
               Replace(7, <<shared, FalseToken>>),
               Replace(2, <<version_minor, <<"2","5","6">>>>),
               Replace(8, <<>>),
               Replace(6, <<base_prefix, <<BadByte>>>>)}}

ExitStatuses == {0, 1}

LaunchErrors == {"NotFound", "PermissionDenied"}

Interpreters == {python3, stub}

----------------------------------------------------------------------------
(* The state machine *)

NoProbe == [entries |-> <<>>, out |-> OutputErr("none"),
            result |-> Err(Error("none", "", <<>>))]

Init ==
    /\ pc = "idle"
    /\ op = "none"
    /\ pred = "none"
    /\ idx = 1
    /\ path = <<>>
    /\ children = {}
    /\ launches = <<>>
    /\ spawned = <<>>
    /\ probe = NoProbe
    /\ probes = <<>>
    /\ yielded = <<>>
    /\ exhausted = FALSE
    /\ ret = <<>>

\* The candidate iterator's next(): the next name goes to the closure, which
\* calls get_config_from_interpreter; at the end of the list the iterator
\* returns None, and so does find.
Advance ==
    IF idx <= Len(Candidates)
    THEN /\ path' = Candidates[idx]
         /\ idx' = idx + 1
         /\ pc' = "launch"
         /\ UNCHANGED exhausted
    ELSE /\ exhausted' = TRUE
         /\ pc' = "done"
         /\ UNCHANGED <<path, idx>>

\* A caller invokes get_config_from_interpreter(p).
CallGetConfig ==
    /\ pc = "idle"
    /\ \E p \in Interpreters : path' = p
    /\ op' = "get_config_from_interpreter"
    /\ pc' = "launch"
    /\ UNCHANGED <<pred, idx, children, launches, spawned, probe, probes, yielded,
                   exhausted, ret>>

\* A caller invokes find_interpreters(): the iterator is built, nothing runs yet.
CallFindInterpreters ==
    /\ pc = "idle"
    /\ op' = "find_interpreters"
    /\ pc' = "consumer"
    /\ UNCHANGED <<pred, idx, path, children, launches, spawned, probe, probes,
                   yielded, exhausted, ret>>

\* A caller invokes find_interpreter_matching(f): find pulls the first item.
CallFindMatching ==
    /\ pc = "idle"
    /\ \E f \in Predicates : pred' = f
    /\ op' = "find_interpreter_matching"
    /\ Advance
    /\ UNCHANGED <<children, launches, spawned, probe, probes, yielded, ret>>

\* The consumer of the find_interpreters iterator asks for the next item.
ConsumerNext ==
    /\ pc = "consumer"
    /\ Advance
    /\ UNCHANGED <<op, pred, children, launches, spawned, probe, probes, yielded, ret>>

\* The consumer of the find_interpreters iterator drops it.
ConsumerStop ==
    /\ pc = "consumer"
    /\ pc' = "done"
    /\ UNCHANGED <<op, pred, idx, path, children, launches, spawned, probe, probes,
                   yielded, exhausted, ret>>

\* The code after Command::output() has returned `out`, up to the next
\* Command::output() or the return to the caller.
Completed(entries, out) ==
    LET result == get_config_from_interpreter(path, out)
        item   == ok_closure(result)
    IN /\ probe' = [entries |-> entries, out |-> out, result |-> result]
       /\ probes' = Append(probes, result)
       /\ CASE op = "get_config_from_interpreter" ->
                 /\ ret' = <<result>>
                 /\ pc' = "done"
                 /\ UNCHANGED <<idx, path, yielded, exhausted>>
            [] op = "find_interpreters" ->
                 IF item # <<>>
                 THEN /\ yielded' = Append(yielded, item[1])
                      /\ pc' = "consumer"
                      /\ UNCHANGED <<idx, path, exhausted, ret>>
                 ELSE /\ Advance
                      /\ UNCHANGED <<yielded, ret>>
            [] op = "find_interpreter_matching" ->
                 IF item # <<>>
                 THEN /\ yielded' = Append(yielded, item[1])
                      /\ IF find_step(pred, item[1]).stop
                         THEN /\ ret' = find_step(pred, item[1]).ret
                              /\ pc' = "done"
                              /\ UNCHANGED <<idx, path, exhausted>>
                         ELSE /\ Advance
                              /\ ret' = find_step(pred, item[1]).ret
                 ELSE /\ Advance
                      /\ UNCHANGED <<yielded, ret>>

\* A faulty variant: the child is started and not waited for.
not_waited(cs, p) == cs

\* Command::output() waits for the child it started: the live children after it.
wait_for_exit(cs, p) == cs \ {p}

\* Command::output() fails: no child process exists.
LaunchFail ==
    /\ pc = "launch"
    /\ launches' = Append(launches, path)
    /\ \E kind \in LaunchErrors : Completed(<<>>, OutputErr(kind))
    /\ UNCHANGED <<op, pred, children, spawned>>

\* Command::output() starts the child and blocks until it has exited.
Spawn ==
    /\ pc = "launch"
    /\ launches' = Append(launches, path)
    /\ spawned' = Append(spawned, path)
    /\ children' = children \cup {path}
    /\ pc' = "wait"
    /\ UNCHANGED <<op, pred, idx, path, probe, probes, yielded, exhausted, ret>>

\* The child exits; Command::output() returns its status and output.
ChildExit ==
    /\ pc = "wait"
    /\ children' = wait_for_exit(children, path)
    /\ \E w \in (IF op = "get_config_from_interpreter" THEN Writes ELSE DiscoveryWrites),
          status \in ExitStatuses :
            Completed(w.entries, OutputOk(status, w.stdout))
    /\ UNCHANGED <<op, pred, launches, spawned>>

\* The call returns; the next call starts from scratch.
Return ==
    /\ pc = "done"
    /\ pc' = "idle"
    /\ op' = "none"
    /\ pred' = "none"
    /\ idx' = 1
    /\ path' = <<>>
    /\ launches' = <<>>
    /\ spawned' = <<>>
    /\ probe' = NoProbe
    /\ probes' = <<>>
    /\ yielded' = <<>>
    /\ exhausted' = FALSE
    /\ ret' = <<>>
    /\ UNCHANGED children

Next ==
    \/ CallGetConfig
    \/ CallFindInterpreters
    \/ CallFindMatching
    \/ ConsumerNext
    \/ ConsumerStop
    \/ LaunchFail
    \/ Spawn
    \/ ChildExit
    \/ Return

Spec == Init /\ [][Next]_vars

----------------------------------------------------------------------------
(* What the properties speak about *)

RequiredKeys == {version_major, version_minor, implementation, shared,
                 ld_version, base_prefix, executable, calcsize_pointer}

\* The order in which the record literal reads the required keys.
ReadOrder == <<version_major, version_minor, implementation, shared,
               ld_version, base_prefix, executable, calcsize_pointer>>

Range(q) == {q[i] : i \in DOMAIN q}

\* The "key value" lines the child wrote for key k.
LinesFor(entries, k) == {i \in DOMAIN entries : Len(entries[i]) = 2 /\ entries[i][1] = k}

HasKey(entries, k) == LinesFor(entries, k) # {}

\* The raw value of key k: that of its last line.
RawValue(entries, k) ==
    entries[CHOOSE i \in LinesFor(entries, k) : \A j \in LinesFor(entries, k) : j <= i][2]

MissingKeys(entries) == {k \in RequiredKeys : ~HasKey(entries, k)}

\* Command::output() returned an exit status and output.
Exited == probe.out.ok

\* run_python_script returned the output as a string, so the parser ran on it.
Captured ==
    /\ Exited
    /\ probe.out.status = 0
    /\ \A i \in DOMAIN probe.out.stdout : probe.out.stdout[i] # BadByte

IsMissingField(e, k) == e.type = "String" /\ e.fmt = MissingFmt /\ e.args[1] = k

\* Canonical decimal texts: digits only, no leading zero.
IsDecimal(v) ==
    /\ v # <<>>
    /\ \A i \in DOMAIN v : IsDigit(v[i])
    /\ (Len(v) > 1 => v[1] # "0")

RECURSIVE DecVal(_)
DecVal(v) == IF v = <<>> THEN 0 ELSE DecVal(DropLast(v)) * 10 + DigitVal(Last(v))

IsU8Text(v) == IsDecimal(v) /\ Len(v) <= 3 /\ DecVal(v) <= U8Max

U32MaxText == <<"4","2","9","4","9","6","7","2","9","5">>

\* v <= w for decimal texts of the same length.
RECURSIVE LexLe(_, _)
LexLe(v, w) ==
    \/ v = <<>>
    \/ DigitVal(Head(v)) < DigitVal(Head(w))
    \/ Head(v) = Head(w) /\ LexLe(Tail(v), Tail(w))

IsU32Text(v) ==
    /\ IsDecimal(v)
    /\ \/ Len(v) < Len(U32MaxText)
       \/ Len(v) = Len(U32MaxText) /\ LexLe(v, U32MaxText)

\* Whether the raw value of a required key is one its field's type accepts.
WellFormed(k, v) ==
    CASE k \in {version_major, version_minor} -> IsU8Text(v)
      [] k = calcsize_pointer -> IsU32Text(v)
      [] k = implementation   -> v \in {CPythonToken, PyPyToken}
      [] OTHER                -> TRUE

\* Every required key read before position n of the read order is present
\* and well-formed.
ReadableBefore(entries, n) ==
    \A j \in 1..(n - 1) :
        /\ HasKey(entries, ReadOrder[j])
        /\ WellFormed(ReadOrder[j], RawValue(entries, ReadOrder[j]))

\* Every required key but k is present and well-formed.
OthersWellFormed(entries, k) ==
    \A r \in RequiredKeys \ {k} :
        HasKey(entries, r) /\ WellFormed(r, RawValue(entries, r))

PositionOf(k) == CHOOSE n \in DOMAIN ReadOrder : ReadOrder[n] = k

----------------------------------------------------------------------------
(* C4 *)

IsScriptFailure(r) ==
    /\ ~r.ok
    /\ r.err = Error("String", ScriptFailedFmt, <<ScriptText>>)

\* C4: a child that exits with a non-zero status makes
\* get_config_from_interpreter return the script-failure error and no
\* InterpreterConfig, whatever it wrote to standard output (complete and
\* well-formed, partial, or not valid UTF-8).
C4_NonZeroExitIsScriptFailure ==
    (Exited /\ probe.out.status # 0) =>
        /\ IsScriptFailure(probe.result)
        /\ (pc = "done" /\ op = "get_config_from_interpreter" => ret = <<probe.result>>)

\* A child that wrote the script's complete, well-formed output and exited 1.
C4_Witness ==
    /\ op = "get_config_from_interpreter"
    /\ pc = "done"
    /\ Exited
    /\ probe.out.status = 1
    /\ probe.entries = BaseEntries
    /\ IsScriptFailure(ret[1])

----------------------------------------------------------------------------
(* C5 *)

\* C5 as stated: an output missing exactly one required key fails with a
\* MissingField error naming that key, whatever the other lines contain.
C5_MissingFieldWhateverElse ==
    \A k \in RequiredKeys :
        (Captured /\ MissingKeys(probe.entries) = {k}) =>
            /\ ~probe.result.ok
            /\ IsMissingField(probe.result.err, k)

\* C5, amended: an output missing exactly one required key yields an error
\* and no record; the error is the MissingField error naming exactly that key
\* and carrying the whole output whenever every required key the record
\* literal reads before it (in the order version_major, version_minor,
\* implementation, shared, ld_version, base_prefix, executable,
\* calcsize_pointer) has a well-formed value.
C5_MissingFieldInReadOrder ==
    \A k \in RequiredKeys :
        (Captured /\ MissingKeys(probe.entries) = {k}) =>
            /\ ~probe.result.ok
            /\ ReadableBefore(probe.entries, PositionOf(k)) =>
                   probe.result.err = Error("String", MissingFmt, <<k, probe.out.stdout>>)

\* The output lacks ld_version only, everything else is well-formed, and the
\* call has returned the MissingField error for ld_version.
C5_Witness ==
    /\ pc = "done"
    /\ Captured
    /\ MissingKeys(probe.entries) = {ld_version}
    /\ OthersWellFormed(probe.entries, ld_version)
    /\ ~ret[1].ok
    /\ IsMissingField(ret[1].err, ld_version)

----------------------------------------------------------------------------
(* C6 *)

ParsedKeys == {version_major, version_minor, implementation, calcsize_pointer}

\* The outcome of the field's own parser on a raw value.
FieldParse(k, v) ==
    CASE k \in {version_major, version_minor} -> parse_u8(v)
      [] k = calcsize_pointer -> parse_u32(v)
      [] k = implementation   -> PythonImplementation_from_str(v)

\* The name of the type a field is parsed into.
TargetType(k) ==
    CASE k \in {version_major, version_minor} -> <<"u","8">>
      [] k = calcsize_pointer -> <<"u","3","2">>
      [] k = implementation   -> <<"P","y","t","h","o","n","I","m","p","l","e","m","e","n","t","a","t","i","o","n">>

\* C6: when a required key is present but its value fails to parse into its
\* target type (and nothing read before it has failed), the error returned
\* names the field, the raw value and the target type, and is not a
\* MissingField error.
C6_MalformedFieldNamesFieldValueType ==
    \A k \in ParsedKeys :
        ( /\ Captured
          /\ HasKey(probe.entries, k)
          /\ ~FieldParse(k, RawValue(probe.entries, k)).ok
          /\ ReadableBefore(probe.entries, PositionOf(k)) ) =>
            /\ ~probe.result.ok
            /\ probe.result.err.fmt # MissingFmt
            /\ k \in Range(probe.result.err.args)
            /\ RawValue(probe.entries, k) \in Range(probe.result.err.args)
            /\ TargetType(k) \in Range(probe.result.err.args)

----------------------------------------------------------------------------
(* C7 *)

\* Python's str() of the u32 held in limbs.
RECURSIVE U32Str(_)
U32Str(x) ==
    IF x.hi = 0 /\ x.lo < 10 THEN <<DigitChars[x.lo + 1]>>
    ELSE LET low == (x.hi % 10) * Limb + x.lo
         IN U32Str([hi |-> x.hi \div 10, lo |-> low \div 10])
            \o <<DigitChars[(low % 10) + 1]>>

ImplStr(i) == IF i = "CPython" THEN CPythonToken ELSE PyPyToken

\* A valid introspection output: every required key on exactly one line with
\* a well-formed value, libdir on at most one line; other lines are free.
ValidOutput(entries) ==
    /\ \A k \in RequiredKeys :
        /\ Cardinality(LinesFor(entries, k)) = 1
        /\ WellFormed(k, RawValue(entries, k))
    /\ RawValue(entries, shared) \in {TrueToken, FalseToken}
    /\ Cardinality(LinesFor(entries, libdir)) <= 1

ContainsSpace(v) == \E i \in DOMAIN v : v[i] = SP

\* C7: for a valid introspection output, in any line order, with or without
\* a libdir line, with values that may contain spaces, parsing succeeds and
\* every field of the record, written back as text, is the input value of its
\* key; libdir is absent exactly when there is no libdir line.
C7_RoundTrip ==
    (Captured /\ ValidOutput(probe.entries)) =>
        /\ probe.result.ok
        /\ LET c == probe.result.val
               raw(k) == RawValue(probe.entries, k)
           IN /\ c.version.major \in 0..U8Max
              /\ IntStr(c.version.major) = raw(version_major)
              /\ c.version.minor \in 0..U8Max
              /\ IntStr(c.version.minor) = raw(version_minor)
              /\ c.version.implementation \in {"CPython", "PyPy"}
              /\ ImplStr(c.version.implementation) = raw(implementation)
              /\ BoolStr(c.shared) = raw(shared)
              /\ c.ld_version = raw(ld_version)
              /\ c.base_prefix = raw(base_prefix)
              /\ c.executable = raw(executable)
              /\ U32Str(c.calcsize_pointer) = raw(calcsize_pointer)
              /\ c.libdir = IF HasKey(probe.entries, libdir)
                            THEN <<raw(libdir)>> ELSE <<>>

\* A valid output written in reverse order, whose executable holds a space,
\* has been parsed into a record.
C7_Witness ==
    /\ pc = "done"
    /\ Captured
    /\ ValidOutput(probe.entries)
    /\ probe.entries[1][1] = calcsize_pointer
    /\ ContainsSpace(RawValue(probe.entries, executable))
    /\ ret[1].ok
    /\ ret[1].val.executable = RawValue(probe.entries, executable)

----------------------------------------------------------------------------
(* C8 *)

\* C8: with every other required key well-formed, any raw value of shared
\* yields a record, and its shared field is true exactly when the raw value
\* is the token True.
C8_SharedIffTrueToken ==
    ( /\ Captured
      /\ HasKey(probe.entries, shared)
      /\ OthersWellFormed(probe.entries, shared) ) =>
        /\ probe.result.ok
        /\ probe.result.val.shared <=> (RawValue(probe.entries, shared) = TrueToken)

\* The raw value "True " (with a trailing space) has given shared = false.
C8_Witness ==
    /\ pc = "done"
    /\ Captured
    /\ HasKey(probe.entries, shared)
    /\ RawValue(probe.entries, shared) = TrueToken \o <<SP>>
    /\ ret[1].ok
    /\ ~ret[1].val.shared

----------------------------------------------------------------------------
(* C9 *)

\* C9: an implementation value other than exactly CPython or PyPy makes the
\* parse fail with an error and no record, whatever the other fields are;
\* CPython and PyPy give the variants of the same name.
C9_UnknownImplementationRejected ==
    (Captured /\ HasKey(probe.entries, implementation)) =>
        LET v == RawValue(probe.entries, implementation) IN
        /\ v \notin {CPythonToken, PyPyToken} => ~probe.result.ok
        /\ (v = CPythonToken /\ probe.result.ok) =>
               probe.result.val.version.implementation = "CPython"
        /\ (v = PyPyToken /\ probe.result.ok) =>
               probe.result.val.version.implementation = "PyPy"

\* " CPython" (a leading space) with every other field well-formed has been
\* rejected as an invalid interpreter.
C9_Witness ==
    /\ pc = "done"
    /\ Captured
    /\ HasKey(probe.entries, implementation)
    /\ RawValue(probe.entries, implementation) = <<SP>> \o CPythonToken
    /\ OthersWellFormed(probe.entries, implementation)
    /\ ~ret[1].ok
    /\ ret[1].err = Error("String", InvalidFmt, << <<SP>> \o CPythonToken >>)

----------------------------------------------------------------------------
(* C1, C2, C3: discovery *)

CandidateOrder == <<python, python3>>

Discovering == op \in {"find_interpreters", "find_interpreter_matching"}

\* The candidates are tried in order, each at most once.
InOrder == launches = SubSeq(CandidateOrder, 1, Len(launches))

\* Probe r gave a configuration that satisfies the predicate of the call.
Matches(r) == r.ok /\ Pred(pred, r.val)

Hits == {i \in DOMAIN probes : Matches(probes[i])}

\* The configurations among the results q, in order.
Configs(q) ==
    LET good == SelectSeq(q, LAMBDA r : r.ok)
    IN [i \in DOMAIN good |-> good[i].val]

\* C1: within a call of find_interpreter_matching, Command::output is invoked
\* on (and a child spawned for) a candidate only when no earlier candidate of
\* that call gave a configuration satisfying the predicate.
C1_NoProbeAfterMatch ==
    op = "find_interpreter_matching" =>
        /\ InOrder
        /\ Len(spawned) <= Len(launches)
        /\ \A n \in DOMAIN launches : \A j \in 1..(n - 1) :
               j <= Len(probes) /\ ~Matches(probes[j])

\* python satisfied the predicate and the call returned it without python3
\* having been launched.
C1_Witness ==
    /\ op = "find_interpreter_matching"
    /\ pc = "done"
    /\ launches = <<python>>
    /\ Matches(probes[1])
    /\ ret = <<probes[1].val>>

\* C2: a pass over find_interpreters() that runs to the end has tried python
\* and then python3, whatever failed on either, and has yielded exactly the
\* configurations of the candidates that succeeded, in candidate order
\* (nothing when both failed); at every moment of a pass the candidates tried
\* so far are a prefix of that order.
C2_FullPassTriesAllInOrder ==
    op = "find_interpreters" =>
        /\ InOrder
        /\ pc \in {"consumer", "done"} => yielded = Configs(probes)
        /\ exhausted =>
            /\ launches = CandidateOrder
            /\ Len(probes) = Len(CandidateOrder)
            /\ yielded = Configs(probes)

\* python failed, python3 succeeded, and the pass ended having yielded
\* python3's configuration only.
C2_Witness ==
    /\ op = "find_interpreters"
    /\ exhausted
    /\ pc = "done"
    /\ ~probes[1].ok
    /\ probes[2].ok
    /\ yielded = <<probes[2].val>>

\* C3: find_interpreter_matching returns the configuration of the first
\* candidate, in the order python then python3, whose introspection succeeded
\* and whose configuration satisfies the predicate, and None when no
\* candidate does; a failed candidate counts as a non-match.
C3_FirstMatchOrNone ==
    (op = "find_interpreter_matching" /\ pc = "done") =>
        /\ InOrder
        /\ Len(probes) = Len(launches)
        /\ IF Hits = {}
           THEN ret = <<>> /\ launches = CandidateOrder
           ELSE ret = <<probes[CHOOSE i \in Hits : \A j \in Hits : i <= j].val>>

\* python's introspection failed, python3's configuration satisfied the
\* predicate and was returned.
C3_Witness ==
    /\ op = "find_interpreter_matching"
    /\ pc = "done"
    /\ Len(probes) = 2
    /\ ~probes[1].ok
    /\ Matches(probes[2])
    /\ ret = <<probes[2].val>>

----------------------------------------------------------------------------
(* C10 *)

\* What holds of child processes in every call, apart from how many one call
\* of get_config_from_interpreter spawns.
ChildDiscipline ==
    /\ Cardinality(children) <= 1
    /\ pc # "wait" => children = {}
    /\ pc = "wait" => children = {path} /\ Last(spawned) = path
    /\ Len(launches) <= Len(probes) + 1
    /\ Len(spawned) <= Len(launches)
    /\ Discovering => InOrder
    /\ (Discovering /\ python3 \in Range(launches)) => Len(probes) >= 1

\* C10 as stated: every call of get_config_from_interpreter spawns exactly one
\* child process.
C10_ExactlyOneChildPerCall ==
    /\ ChildDiscipline
    /\ (op = "get_config_from_interpreter" /\ pc = "done") => Len(spawned) = 1

\* C10, amended: every call of get_config_from_interpreter invokes
\* Command::output once, which spawns at most one child process: exactly one
\* when the launch succeeds and none when it fails; the call returns only
\* after that child has exited. During a discovery pass at most one child is
\* alive at any time, python3's child is spawned only after python's probe
\* has completed, each candidate is probed at most once, and no child is
\* alive when the call returns.
C10_AtMostOneChildPerCall ==
    /\ ChildDiscipline
    /\ (op = "get_config_from_interpreter" /\ pc = "done") =>
        /\ Len(launches) = 1
        /\ Len(spawned) = IF probe.out.ok THEN 1 ELSE 0

\* python's child has exited and python3's child is the only one alive.
C10_Witness ==
    /\ Discovering
    /\ pc = "wait"
    /\ spawned = <<python, python3>>
    /\ children = {python3}
    /\ Len(probes) = 1

====
